---- MODULE Spec2Model ----
(***************************************************************************)
(* Model of src/src/chart/barChartVertical.js: the two chart factories     *)
(* barChartVertical and barChartMultiSeries.  Each factory call closes     *)
(* over its own configuration variables; the returned callable `my`        *)
(* renders into a d3 selection, and my.<field> are the getter/setters.     *)
(***************************************************************************)
EXTENDS Integers, Sequences, FiniteSets, TLC

VARIABLES
    cfg,    \* cfg[c]: the closed-over variables of chart instance c
    dom,    \* the x3d subtree appended by the most recent render, or NoScene
    last,   \* the most recent call: which function, its argument, its return value
    calls,  \* number of calls made so far (also names the objects a render allocates)
    used    \* the instances on which some function has been called

vars == <<cfg, dom, last, calls, used>>

\* Number of calls explored.
MaxCalls == 3

(***************************************************************************)
(* Instances: two produced by barChartVertical(), one by                   *)
(* barChartMultiSeries().                                                  *)
(***************************************************************************)
VerticalCharts == {"v1", "v2"}
MultiCharts == {"m1"}
Charts == VerticalCharts \cup MultiCharts

\* The receiver (`this`) of an accessor call: the instance itself when called
\* as chart.width(v), something else when the function is detached or
\* invoked through call/apply.
Receivers(c) == {c, "other"}

\* The JavaScript value undefined.
Undefined == [type |-> "undefined"]

(***************************************************************************)
(* Input datasets: ordered series of {key, values: [{key, value}]}.        *)
(***************************************************************************)
DataA ==
    << [key |-> "A", values |-> << [key |-> "q1", value |-> 10],
                                   [key |-> "q2", value |-> 20] >>] >>

DataBA ==
    << [key |-> "B", values |-> << [key |-> "q2", value |-> 17],
                                   [key |-> "q1", value |-> 3] >>],
       [key |-> "A", values |-> << [key |-> "q1", value |-> 10],
                                   [key |-> "q3", value |-> 5] >>] >>

Datasets == {DataA, DataBA}

(***************************************************************************)
(* dataTransform(data).summary(): unique row keys, unique column keys and  *)
(* the maximum value.                                                      *)
(***************************************************************************)
RECURSIVE UniqAcc(_, _)
UniqAcc(s, acc) ==
    IF s = <<>> THEN acc
    ELSE IF \E i \in 1..Len(acc) : acc[i] = Head(s)
         THEN UniqAcc(Tail(s), acc)
         ELSE UniqAcc(Tail(s), Append(acc, Head(s)))

Uniq(s) == UniqAcc(s, <<>>)

RECURSIVE AllValues(_)
AllValues(data) ==
    IF data = <<>> THEN <<>> ELSE Head(data).values \o AllValues(Tail(data))

RECURSIVE SeqMax(_)
SeqMax(s) ==
    IF Len(s) = 1 THEN s[1]
    ELSE LET m == SeqMax(Tail(s)) IN IF s[1] >= m THEN s[1] ELSE m

summary(data) ==
    LET vals == AllValues(data) IN
    [ rowKeys    |-> Uniq([i \in 1..Len(data) |-> data[i].key]),
      columnKeys |-> Uniq([i \in 1..Len(vals) |-> vals[i].key]),
      maxValue   |-> SeqMax([i \in 1..Len(vals) |-> vals[i].value]) ]

(***************************************************************************)
(* d3-scale, as far as the charts use it.  A scale object is a record; the *)
(* field born tells the objects apart: 0 for a scale the caller built, n   *)
(* for a scale allocated during call number n.                             *)
(***************************************************************************)
RECURSIVE Pow10Below(_, _)
\* largest power of ten <= s, searched upward from p
Pow10Below(s, p) == IF 10 * p > s THEN p ELSE Pow10Below(s, 10 * p)

\* d3.tickIncrement(start, stop, 10) for integers start < stop: a positive
\* result is the step, a negative result -k is the step 1/k.
tickIncrement(start, stop) ==
    LET s == stop - start
        p == Pow10Below(s, 1)       \* 10^(power+1), step = s/10
        f == IF s * s >= 50 * p * p THEN 10
             ELSE IF s * s >= 10 * p * p THEN 5
             ELSE IF s * s >= 2 * p * p THEN 2
             ELSE 1
    IN  IF p >= 10 THEN f * (p \div 10) ELSE -(10 \div f)

Floor(a, step) == (a \div step) * step
Ceil(a, step) == ((a + step - 1) \div step) * step

\* One rounding pass of linear.nice: outward to multiples of the step.  With a
\* fractional step 1/k the integer endpoints are already multiples.
niceStep(d) ==
    LET step == tickIncrement(d[1], d[2]) IN
    IF step > 0 THEN <<Floor(d[1], step), Ceil(d[2], step)>> ELSE d

\* scale.nice(): round, recompute the step on the rounded domain, round again.
nice(d) == IF d[2] > d[1] THEN niceStep(niceStep(d)) ELSE d

scaleBand(domain, range, round, padding, born) ==
    [ type |-> "band", domain |-> Uniq(domain), range |-> range,
      round |-> round, padding |-> padding, born |-> born ]

scaleLinearNice(domain, range, born) ==
    [ type |-> "linear", domain |-> nice(domain), range |-> range, born |-> born ]

\* An ordinal scale answers keys outside its domain by extending it (unknown
\* is scaleImplicit unless set).
scaleOrdinal(domain, range, born) ==
    [ type |-> "ordinal", domain |-> Uniq(domain), range |-> range,
      unknown |-> "implicit", born |-> born ]

\* Scales built by the caller and passed through the accessors.
UserX == [ type |-> "band", domain |-> <<"u1", "u2">>, range |-> <<0, 10>>,
           round |-> FALSE, padding |-> 0, born |-> 0 ]
UserY == [ type |-> "linear", domain |-> <<0, 100>>, range |-> <<0, 10>>, born |-> 0 ]
UserZ == [ type |-> "band", domain |-> <<"s1">>, range |-> <<0, 5>>,
           round |-> FALSE, padding |-> 0, born |-> 0 ]
UserC == [ type |-> "ordinal", domain |-> <<"u1">>, range |-> <<"black">>,
           unknown |-> "implicit", born |-> 0 ]
UserScales == {UserX, UserY, UserZ, UserC}


(***************************************************************************)
(* Default properties of a freshly constructed chart.                      *)
(***************************************************************************)
DefaultWidth == 500
DefaultHeight == 500
DefaultDimensions == [x |-> 40, y |-> 40, z |-> 40]
DefaultColors == <<"green", "red", "yellow", "steelblue", "orange">>

barChartVertical ==
    [ width |-> DefaultWidth, height |-> DefaultHeight,
      dimensions |-> DefaultDimensions, colors |-> DefaultColors,
      classed |-> "x3dBarChartVertical", debug |-> FALSE,
      xScale |-> Undefined, yScale |-> Undefined, colorScale |-> Undefined ]

barChartMultiSeries ==
    [ width |-> DefaultWidth, height |-> DefaultHeight,
      dimensions |-> DefaultDimensions, colors |-> DefaultColors,
      classed |-> "x3dBarChartMultiSeries", debug |-> FALSE,
      xScale |-> Undefined, yScale |-> Undefined, zScale |-> Undefined,
      colorScale |-> Undefined ]

\* Values the caller passes to the accessors.
WidthValues == {300}
HeightValues == {200}
DimensionsValues == {[x |-> 20, y |-> 30, z |-> 10]}
ColorsValues == {<<"blue", "pink">>}
DebugValues == BOOLEAN
XScaleValues == {Undefined, UserX}
YScaleValues == {Undefined, UserY}
ZScaleValues == {Undefined, UserZ}
ColorScaleValues == {Undefined, UserC}

NoScene == [tag |-> "none"]
NoCall == [op |-> "none", chart |-> "none", field |-> "none", arg |-> Undefined,
           ret |-> "none"]

Init ==
    /\ cfg = [c \in Charts |->
                IF c \in VerticalCharts THEN barChartVertical ELSE barChartMultiSeries]
    /\ dom = NoScene
    /\ last = NoCall
    /\ calls = 0
    /\ used = {}

\* Bookkeeping of one call on instance c.
Returned(c, op, field, arg, ret) ==
    /\ calls < MaxCalls
    /\ calls' = calls + 1
    /\ used' = used \cup {c}
    /\ last' = [op |-> op, chart |-> c, field |-> field, arg |-> arg, ret |-> ret]

(***************************************************************************)
(* barChartVertical                                                        *)
(***************************************************************************)
\* Variant of init without the typeof guard on xScale.
barChartVertical_init_overwriteX(conf, data, born) ==
    LET s == summary(data)
        extent == <<0, s.maxValue>>
        c1 == [conf EXCEPT !.xScale =
                 scaleBand(s.columnKeys, <<0, conf.dimensions.x>>, TRUE, 5, born)]
        c2 == IF c1.yScale = Undefined
              THEN [c1 EXCEPT !.yScale =
                      scaleLinearNice(extent, <<0, c1.dimensions.y>>, born)]
              ELSE c1
        c3 == IF c2.colorScale = Undefined
              THEN [c2 EXCEPT !.colorScale =
                      scaleOrdinal(s.columnKeys, c2.colors, born)]
              ELSE c2
    IN  c3

\* Variant of init that takes the x domain from the row keys.
barChartVertical_init_rowKeys(conf, data, born) ==
    LET s == summary(data)
        extent == <<0, s.maxValue>>
        c1 == IF conf.xScale = Undefined
              THEN [conf EXCEPT !.xScale =
                      scaleBand(s.rowKeys, <<0, conf.dimensions.x>>, TRUE, 5, born)]
              ELSE conf
        c2 == IF c1.yScale = Undefined
              THEN [c1 EXCEPT !.yScale =
                      scaleLinearNice(extent, <<0, c1.dimensions.y>>, born)]
              ELSE c1
        c3 == IF c2.colorScale = Undefined
              THEN [c2 EXCEPT !.colorScale =
                      scaleOrdinal(s.columnKeys, c2.colors, born)]
              ELSE c2
    IN  c3

\* Variant of init that trims the palette to the number of column keys.
barChartVertical_init_sliceColors(conf, data, born) ==
    LET s == summary(data)
        extent == <<0, s.maxValue>>
        n == IF Len(s.columnKeys) < Len(conf.colors)
             THEN Len(s.columnKeys) ELSE Len(conf.colors)
        c0 == [conf EXCEPT !.colors = SubSeq(conf.colors, 1, n)]
        c1 == IF c0.xScale = Undefined
              THEN [c0 EXCEPT !.xScale =
                      scaleBand(s.columnKeys, <<0, c0.dimensions.x>>, TRUE, 5, born)]
              ELSE c0
        c2 == IF c1.yScale = Undefined
              THEN [c1 EXCEPT !.yScale =
                      scaleLinearNice(extent, <<0, c1.dimensions.y>>, born)]
              ELSE c1
        c3 == IF c2.colorScale = Undefined
              THEN [c2 EXCEPT !.colorScale =
                      scaleOrdinal(s.columnKeys, c2.colors, born)]
              ELSE c2
    IN  c3

\* init(data): derive the scales that are still undefined.
barChartVertical_init(conf, data, born) ==
    LET s == summary(data)
        extent == <<0, s.maxValue>>
        c1 == IF conf.xScale = Undefined
              THEN [conf EXCEPT !.xScale =
                      scaleBand(s.columnKeys, <<0, conf.dimensions.x>>, TRUE, 5, born)]
              ELSE conf
        c2 == IF c1.yScale = Undefined
              THEN [c1 EXCEPT !.yScale =
                      scaleLinearNice(extent, <<0, c1.dimensions.y>>, born)]
              ELSE c1
        c3 == IF c2.colorScale = Undefined
              THEN [c2 EXCEPT !.colorScale =
                      scaleOrdinal(s.columnKeys, c2.colors, born)]
              ELSE c2
    IN  c3

\* Variant of the attribute code that sets showStat outside the debug test.
x3dAttrs_statAlways(conf) ==
    IF conf.debug = TRUE
    THEN [ width |-> <<conf.width, "px">>, height |-> <<conf.height, "px">>,
           showLog |-> "true", showStat |-> "true" ]
    ELSE [ width |-> <<conf.width, "px">>, height |-> <<conf.height, "px">>,
           showStat |-> "true" ]

\* The attributes of the x3d node my(selection) appends: width and height as
\* <number> + "px", and showLog/showStat when debug is truthy.
x3dAttrs(conf) ==
    IF conf.debug = TRUE
    THEN [ width |-> <<conf.width, "px">>, height |-> <<conf.height, "px">>,
           showLog |-> "true", showStat |-> "true" ]
    ELSE [ width |-> <<conf.width, "px">>, height |-> <<conf.height, "px">> ]

\* The subtree my(selection) appends for the bound datum `data`.
barChartVertical_x3d(conf, data, born) ==
    LET c1 == barChartVertical_init(conf, data, born)
        xAxis == [ component |-> "axis", scale |-> c1.xScale,
                   dir |-> "x", tickDir |-> "y" ]
        yAxis == [ component |-> "axis", scale |-> c1.yScale,
                   dir |-> "y", tickDir |-> "x",
                   tickSize |-> c1.yScale.range[2] - c1.yScale.range[1] ]
        chart == [ component |-> "bars", xScale |-> c1.xScale,
                   yScale |-> c1.yScale, colors |-> c1.colors ]
    IN  [ tag |-> "x3d",
          attrs |-> x3dAttrs(conf),
          scene |-> [ classed |-> conf.classed,
                      groups |-> <<"xAxis", "yAxis", "chart">>,
                      viewpoint |-> [quickView |-> "left"],
                      lights |-> <<>>,
                      calls |-> [ xAxis |-> xAxis, yAxis |-> yAxis,
                                  chart |-> [datum |-> data, call |-> chart] ] ] ]

\* my(selection): render the datum bound to the selection.
barChartVertical_my(c, data) ==
    /\ c \in VerticalCharts
    /\ Returned(c, "render", "none", data, "undefined")
    /\ cfg' = [cfg EXCEPT ![c] = barChartVertical_init(cfg[c], data, calls + 1)]
    /\ dom' = barChartVertical_x3d(cfg[c], data, calls + 1)

barChartVertical_width(c, this, x) ==
    /\ c \in VerticalCharts
    /\ Returned(c, "set", "width", x, this)
    /\ cfg' = [cfg EXCEPT ![c].width = x]
    /\ dom' = dom

barChartVertical_height(c, this, x) ==
    /\ c \in VerticalCharts
    /\ Returned(c, "set", "height", x, this)
    /\ cfg' = [cfg EXCEPT ![c].height = x]
    /\ dom' = dom

barChartVertical_dimensions(c, this, x) ==
    /\ c \in VerticalCharts
    /\ Returned(c, "set", "dimensions", x, this)
    /\ cfg' = [cfg EXCEPT ![c].dimensions = x]
    /\ dom' = dom

barChartVertical_xScale(c, x) ==
    /\ c \in VerticalCharts
    /\ Returned(c, "set", "xScale", x, c)
    /\ cfg' = [cfg EXCEPT ![c].xScale = x]
    /\ dom' = dom

barChartVertical_yScale(c, x) ==
    /\ c \in VerticalCharts
    /\ Returned(c, "set", "yScale", x, c)
    /\ cfg' = [cfg EXCEPT ![c].yScale = x]
    /\ dom' = dom

barChartVertical_colorScale(c, x) ==
    /\ c \in VerticalCharts
    /\ Returned(c, "set", "colorScale", x, c)
    /\ cfg' = [cfg EXCEPT ![c].colorScale = x]
    /\ dom' = dom

\* Variant of my.colors over a palette variable shared by all instances.
barChartVertical_colors_shared(c, x) ==
    /\ c \in VerticalCharts
    /\ Returned(c, "set", "colors", x, c)
    /\ cfg' = [o \in Charts |-> [cfg[o] EXCEPT !.colors = x]]
    /\ dom' = dom

barChartVertical_colors(c, x) ==
    /\ c \in VerticalCharts
    /\ Returned(c, "set", "colors", x, c)
    /\ cfg' = [cfg EXCEPT ![c].colors = x]
    /\ dom' = dom

barChartVertical_debug(c, x) ==
    /\ c \in VerticalCharts
    /\ Returned(c, "set", "debug", x, c)
    /\ cfg' = [cfg EXCEPT ![c].debug = x]
    /\ dom' = dom

(***************************************************************************)
(* barChartMultiSeries                                                     *)
(***************************************************************************)
\* Variant of init that takes the z domain from the column keys.
barChartMultiSeries_init_zColumns(conf, data, born) ==
    LET s == summary(data)
        c1 == IF conf.xScale = Undefined
              THEN [conf EXCEPT !.xScale =
                      scaleBand(s.columnKeys, <<0, conf.dimensions.x>>, TRUE, 5, born)]
              ELSE conf
        c3 == IF c1.zScale = Undefined
              THEN [c1 EXCEPT !.zScale =
                      scaleBand(s.columnKeys, <<0, c1.dimensions.z>>, FALSE, 7, born)]
              ELSE c1
        c4 == IF c3.colorScale = Undefined
              THEN [c3 EXCEPT !.colorScale =
                      scaleOrdinal(s.columnKeys, c3.colors, born)]
              ELSE c3
    IN  c4

\* Variant of init whose yScale branch assigns the scale it builds.
barChartMultiSeries_init_assignY(conf, data, born) ==
    LET s == summary(data)
        extent == <<0, s.maxValue>>
        c1 == IF conf.xScale = Undefined
              THEN [conf EXCEPT !.xScale =
                      scaleBand(s.columnKeys, <<0, conf.dimensions.x>>, TRUE, 5, born)]
              ELSE conf
        c2 == IF c1.yScale = Undefined
              THEN [c1 EXCEPT !.yScale =
                      scaleLinearNice(extent, <<0, c1.dimensions.y>>, born)]
              ELSE c1
        c3 == IF c2.zScale = Undefined
              THEN [c2 EXCEPT !.zScale =
                      scaleBand(s.rowKeys, <<0, c2.dimensions.z>>, FALSE, 7, born)]
              ELSE c2
        c4 == IF c3.colorScale = Undefined
              THEN [c3 EXCEPT !.colorScale =
                      scaleOrdinal(s.columnKeys, c3.colors, born)]
              ELSE c3
    IN  c4

\* Variant of init that derives the z-scale on every render.
barChartMultiSeries_init_rederiveZ(conf, data, born) ==
    LET s == summary(data)
        c1 == IF conf.xScale = Undefined
              THEN [conf EXCEPT !.xScale =
                      scaleBand(s.columnKeys, <<0, conf.dimensions.x>>, TRUE, 5, born)]
              ELSE conf
        c3 == IF c1.zScale = Undefined \/ c1.zScale \notin UserScales
              THEN [c1 EXCEPT !.zScale =
                      scaleBand(s.rowKeys, <<0, c1.dimensions.z>>, FALSE, 7, born)]
              ELSE c1
        c4 == IF c3.colorScale = Undefined
              THEN [c3 EXCEPT !.colorScale =
                      scaleOrdinal(s.columnKeys, c3.colors, born)]
              ELSE c3
    IN  c4

\* init(data): the yScale branch builds a linear scale and drops it.
barChartMultiSeries_init(conf, data, born) ==
    LET s == summary(data)
        extent == <<0, s.maxValue>>
        c1 == IF conf.xScale = Undefined
              THEN [conf EXCEPT !.xScale =
                      scaleBand(s.columnKeys, <<0, conf.dimensions.x>>, TRUE, 5, born)]
              ELSE conf
        dropped == IF c1.yScale = Undefined
                   THEN scaleLinearNice(extent, <<0, c1.dimensions.y>>, born)
                   ELSE Undefined
        c2 == c1
        c3 == IF c2.zScale = Undefined
              THEN [c2 EXCEPT !.zScale =
                      scaleBand(s.rowKeys, <<0, c2.dimensions.z>>, FALSE, 7, born)]
              ELSE c2
        c4 == IF c3.colorScale = Undefined
              THEN [c3 EXCEPT !.colorScale =
                      scaleOrdinal(s.columnKeys, c3.colors, born)]
              ELSE c3
    IN  c4

barChartMultiSeries_x3d(conf, data, born) ==
    LET c1 == barChartMultiSeries_init(conf, data, born)
        axis == [ component |-> "axisThreePlane", xScale |-> c1.xScale,
                  yScale |-> c1.yScale, zScale |-> c1.zScale ]
        chart == [ component |-> "barsMultiSeries", xScale |-> c1.xScale,
                   yScale |-> c1.yScale, zScale |-> c1.zScale,
                   colors |-> c1.colors ]
    IN  [ tag |-> "x3d",
          attrs |-> x3dAttrs(conf),
          scene |-> [ classed |-> conf.classed,
                      groups |-> <<"axis", "chart">>,
                      viewpoint |-> [centerOfRotation |->
                                       << <<conf.dimensions.x, 2>>,
                                          <<conf.dimensions.y, 2>>,
                                          <<conf.dimensions.z, 2>> >>],
                      lights |-> << [ direction |-> "1 0 -1", on |-> "true",
                                      intensity |-> "0.4",
                                      shadowintensity |-> "0" ] >>,
                      calls |-> [ axis |-> axis,
                                  chart |-> [datum |-> data, call |-> chart] ] ] ]

barChartMultiSeries_my(c, data) ==
    /\ c \in MultiCharts
    /\ Returned(c, "render", "none", data, "undefined")
    /\ cfg' = [cfg EXCEPT ![c] = barChartMultiSeries_init(cfg[c], data, calls + 1)]
    /\ dom' = barChartMultiSeries_x3d(cfg[c], data, calls + 1)

barChartMultiSeries_width(c, this, x) ==
    /\ c \in MultiCharts
    /\ Returned(c, "set", "width", x, this)
    /\ cfg' = [cfg EXCEPT ![c].width = x]
    /\ dom' = dom

\* Variant of my.height that assigns the neighbouring variable.
barChartMultiSeries_height_intoWidth(c, this, x) ==
    /\ c \in MultiCharts
    /\ Returned(c, "set", "height", x, this)
    /\ cfg' = [cfg EXCEPT ![c].width = x]
    /\ dom' = dom

barChartMultiSeries_height(c, this, x) ==
    /\ c \in MultiCharts
    /\ Returned(c, "set", "height", x, this)
    /\ cfg' = [cfg EXCEPT ![c].height = x]
    /\ dom' = dom

barChartMultiSeries_dimensions(c, this, x) ==
    /\ c \in MultiCharts
    /\ Returned(c, "set", "dimensions", x, this)
    /\ cfg' = [cfg EXCEPT ![c].dimensions = x]
    /\ dom' = dom

barChartMultiSeries_xScale(c, x) ==
    /\ c \in MultiCharts
    /\ Returned(c, "set", "xScale", x, c)
    /\ cfg' = [cfg EXCEPT ![c].xScale = x]
    /\ dom' = dom

barChartMultiSeries_yScale(c, x) ==
    /\ c \in MultiCharts
    /\ Returned(c, "set", "yScale", x, c)
    /\ cfg' = [cfg EXCEPT ![c].yScale = x]
    /\ dom' = dom

barChartMultiSeries_zScale(c, x) ==
    /\ c \in MultiCharts
    /\ Returned(c, "set", "zScale", x, c)
    /\ cfg' = [cfg EXCEPT ![c].zScale = x]
    /\ dom' = dom

barChartMultiSeries_colorScale(c, x) ==
    /\ c \in MultiCharts
    /\ Returned(c, "set", "colorScale", x, c)
    /\ cfg' = [cfg EXCEPT ![c].colorScale = x]
    /\ dom' = dom

barChartMultiSeries_colors(c, x) ==
    /\ c \in MultiCharts
    /\ Returned(c, "set", "colors", x, c)
    /\ cfg' = [cfg EXCEPT ![c].colors = x]
    /\ dom' = dom

barChartMultiSeries_debug(c, x) ==
    /\ c \in MultiCharts
    /\ Returned(c, "set", "debug", x, c)
    /\ cfg' = [cfg EXCEPT ![c].debug = x]
    /\ dom' = dom

\* The accessor called with no argument: if (!arguments.length) return <field>.
Get(c, field) ==
    CASE field = "width"      -> cfg[c].width
      [] field = "height"     -> cfg[c].height
      [] field = "dimensions" -> cfg[c].dimensions
      [] field = "xScale"     -> cfg[c].xScale
      [] field = "yScale"     -> cfg[c].yScale
      [] field = "zScale"     -> cfg[c].zScale
      [] field = "colorScale" -> cfg[c].colorScale
      [] field = "colors"     -> cfg[c].colors
      [] field = "debug"      -> cfg[c].debug

\* The accessors each factory attaches to `my`.
Accessors(c) ==
    IF c \in VerticalCharts
    THEN {"width", "height", "dimensions", "xScale", "yScale", "colorScale",
          "colors", "debug"}
    ELSE {"width", "height", "dimensions", "xScale", "yScale", "zScale",
          "colorScale", "colors", "debug"}

\* The scale objects a render hands to its sub-components for one accessor's
\* variable, read off the subtree d the render of instance c produced.
Handed(c, d, field) ==
    IF c \in VerticalCharts
    THEN CASE field = "xScale" ->
                {d.scene.calls.xAxis.scale, d.scene.calls.chart.call.xScale}
           [] field = "yScale" ->
                {d.scene.calls.yAxis.scale, d.scene.calls.chart.call.yScale}
           [] OTHER -> {}
    ELSE CASE field = "xScale" ->
                {d.scene.calls.axis.xScale, d.scene.calls.chart.call.xScale}
           [] field = "yScale" ->
                {d.scene.calls.axis.yScale, d.scene.calls.chart.call.yScale}
           [] field = "zScale" ->
                {d.scene.calls.axis.zScale, d.scene.calls.chart.call.zScale}
           [] OTHER -> {}

ScaleAccessors(c) == Accessors(c) \cap {"xScale", "yScale", "zScale", "colorScale"}

Next ==
    \E c \in Charts :
        \/ \E d \in Datasets : barChartVertical_my(c, d)
        \/ \E d \in Datasets : barChartMultiSeries_my(c, d)
        \/ \E this \in Receivers(c), x \in WidthValues : barChartVertical_width(c, this, x)
        \/ \E this \in Receivers(c), x \in HeightValues : barChartVertical_height(c, this, x)
        \/ \E this \in Receivers(c), x \in DimensionsValues :
               barChartVertical_dimensions(c, this, x)
        \/ \E x \in XScaleValues : barChartVertical_xScale(c, x)
        \/ \E x \in YScaleValues : barChartVertical_yScale(c, x)
        \/ \E x \in ColorScaleValues : barChartVertical_colorScale(c, x)
        \/ \E x \in ColorsValues : barChartVertical_colors(c, x)
        \/ \E x \in DebugValues : barChartVertical_debug(c, x)
        \/ \E this \in Receivers(c), x \in WidthValues : barChartMultiSeries_width(c, this, x)
        \/ \E this \in Receivers(c), x \in HeightValues : barChartMultiSeries_height(c, this, x)
        \/ \E this \in Receivers(c), x \in DimensionsValues :
               barChartMultiSeries_dimensions(c, this, x)
        \/ \E x \in XScaleValues : barChartMultiSeries_xScale(c, x)
        \/ \E x \in YScaleValues : barChartMultiSeries_yScale(c, x)
        \/ \E x \in ZScaleValues : barChartMultiSeries_zScale(c, x)
        \/ \E x \in ColorScaleValues : barChartMultiSeries_colorScale(c, x)
        \/ \E x \in ColorsValues : barChartMultiSeries_colors(c, x)
        \/ \E x \in DebugValues : barChartMultiSeries_debug(c, x)

Spec == Init /\ [][Next]_vars

(***************************************************************************)
(* Claims                                                                  *)
(***************************************************************************)

\* C1: on an instance no function has been called on, every accessor called
\* with no argument returns the default (width 500, height 500, dimensions
\* {x:40,y:40,z:40}, the five default colours, debug false, every scale
\* undefined); right after an accessor was called with a value v, the same
\* accessor called with no argument returns exactly v.
C1_AccessorRoundTrip ==
    /\ \A c \in Charts \ used :
          /\ Get(c, "width") = 500
          /\ Get(c, "height") = 500
          /\ Get(c, "dimensions") = [x |-> 40, y |-> 40, z |-> 40]
          /\ Get(c, "colors") = <<"green", "red", "yellow", "steelblue", "orange">>
          /\ Get(c, "debug") = FALSE
          /\ \A f \in ScaleAccessors(c) : Get(c, f) = Undefined
    /\ last.op = "set" => Get(last.chart, last.field) = last.arg

\* C1 witness: a caller-built scale was just stored through xScale of one
\* instance while another instance is still untouched.
C1_Witness ==
    /\ last.op = "set"
    /\ last.field = "xScale"
    /\ last.arg = UserX
    /\ last.chart = "m1"
    /\ "v2" \notin used
    /\ calls = 3

\* C2 (as claimed): every accessor called with one argument returns the chart
\* instance, whatever the receiver it is invoked on.
C2_SetterReturnsInstance ==
    last.op = "set" => last.ret = last.chart

C4_YDomainIsExtent ==
    \A c \in VerticalCharts :
        (last.op = "render" /\ last.chart = c) =>
            /\ cfg[c].xScale.born = calls =>
                  cfg[c].xScale.domain = summary(last.arg).columnKeys
            /\ cfg[c].yScale.born = calls =>
                  cfg[c].yScale.domain = <<0, summary(last.arg).maxValue>>

\* C4 (amended): the derived x-scale has the column keys (in summary order)
\* as domain; the derived y-scale has the domain [0, maxValue] extended by
\* nice() to the next tick multiple, which starts at 0 and ends at or above
\* maxValue.  For the dataset A:(q1,10),(q2,20) the domains are ["q1","q2"]
\* and [0,20]; for a maximum of 17 the y-domain is [0,18].
C4_DerivedDomains ==
    \A c \in VerticalCharts :
        (last.op = "render" /\ last.chart = c) =>
            /\ cfg[c].xScale.born = calls =>
                  /\ cfg[c].xScale.domain = summary(last.arg).columnKeys
                  /\ last.arg = DataA => cfg[c].xScale.domain = <<"q1", "q2">>
                  /\ last.arg = DataBA => cfg[c].xScale.domain = <<"q2", "q1", "q3">>
            /\ cfg[c].yScale.born = calls =>
                  /\ cfg[c].yScale.domain[1] = 0
                  /\ cfg[c].yScale.domain[2] >= summary(last.arg).maxValue
                  /\ cfg[c].yScale.domain = nice(<<0, summary(last.arg).maxValue>>)
                  /\ last.arg = DataA => cfg[c].yScale.domain = <<0, 20>>
                  /\ last.arg = DataBA => cfg[c].yScale.domain = <<0, 18>>

\* C4 witness: the example dataset rendered by a chart with no scale supplied.
C4_Witness ==
    /\ last.op = "render"
    /\ last.chart = "v1"
    /\ last.arg = DataA
    /\ cfg["v1"].xScale.born = calls
    /\ cfg["v1"].yScale.born = calls
    /\ cfg["v1"].xScale.domain = <<"q1", "q2">>
    /\ cfg["v1"].yScale.domain = <<0, 20>>

\* C5: a render of barChartMultiSeries that derives the z-scale gives it the
\* series keys in input order as domain (["B","A"] for the two series B, A),
\* and hands that z-scale to both axisThreePlane and barsMultiSeries.
C5_ZDomainIsSeriesKeys ==
    \A c \in MultiCharts :
        (last.op = "render" /\ last.chart = c /\ cfg[c].zScale.born = calls) =>
            /\ cfg[c].zScale.domain = [i \in 1..Len(last.arg) |-> last.arg[i].key]
            /\ last.arg = DataBA => cfg[c].zScale.domain = <<"B", "A">>
            /\ dom.scene.calls.axis.zScale = cfg[c].zScale
            /\ dom.scene.calls.chart.call.zScale = cfg[c].zScale

\* C5 witness: two series rendered by a multi-series chart with no zScale set.
C5_Witness ==
    /\ last.op = "render"
    /\ last.chart = "m1"
    /\ last.arg = DataBA
    /\ cfg["m1"].zScale.born = calls
    /\ Len(cfg["m1"].zScale.domain) = 2
    /\ dom.scene.calls.axis.zScale.domain = <<"B", "A">>

\* C6: the x3d node a render creates carries showLog and showStat (both
\* "true") exactly when debug is truthy at that render, and apart from these
\* two attributes the created subtree is the one the same render would have
\* created with the flag reversed (same scene, groups, sub-component calls).
C6_DebugOnlyAddsAttrs ==
    [][ \A c \in Charts :
          (calls' = calls + 1 /\ last'.op = "render" /\ last'.chart = c) =>
              LET flipped == [cfg[c] EXCEPT !.debug = ~@]
                  other == IF c \in VerticalCharts
                           THEN barChartVertical_x3d(flipped, last'.arg, calls')
                           ELSE barChartMultiSeries_x3d(flipped, last'.arg, calls')
                  Strip(d) == [d EXCEPT !.attrs =
                                 [n \in DOMAIN d.attrs \ {"showLog", "showStat"}
                                    |-> d.attrs[n]]]
              IN  /\ ("showLog" \in DOMAIN dom'.attrs) <=> (cfg[c].debug = TRUE)
                  /\ ("showStat" \in DOMAIN dom'.attrs) <=> (cfg[c].debug = TRUE)
                  /\ cfg[c].debug = TRUE =>
                        dom'.attrs.showLog = "true" /\ dom'.attrs.showStat = "true"
                  /\ Strip(dom') = Strip(other) ]_vars

\* C6 witness: a render made with debug set to true.
C6_Witness ==
    /\ last.op = "render"
    /\ cfg[last.chart].debug = TRUE
    /\ "showLog" \in DOMAIN dom.attrs
    /\ dom.attrs.showStat = "true"

\* C7: a call on one instance (setter or render) leaves every value the
\* accessors of every other instance return unchanged.
C7_InstancesIndependent ==
    [][ \A o \in Charts :
          o # last'.chart => \A f \in Accessors(o) : cfg'[o][f] = cfg[o][f] ]_vars

\* C7 witness: v1 had its palette set and was rendered, m1 had a scale set,
\* and v2, of the same type as v1, still holds its initial configuration.
C7_Witness ==
    /\ last.op = "render"
    /\ last.chart = "v1"
    /\ cfg["v1"].colors = <<"blue", "pink">>
    /\ cfg["m1"].xScale = UserX
    /\ cfg["m1"].colors = DefaultColors
    /\ cfg["v2"] = barChartVertical

\* C8 (as claimed): a render changes the value of no accessor, scales
\* included.
C8_RenderChangesNothing ==
    [][ \A c \in Charts :
          (calls' = calls + 1 /\ last'.op = "render" /\ last'.chart = c) =>
              \A f \in Accessors(c) : cfg'[c][f] = cfg[c][f] ]_vars

\* C8 (amended): a render leaves width, height, dimensions, colors, debug and
\* every scale that was defined before it unchanged; a scale that was
\* undefined before the render holds the scale init derived during it
\* afterwards, except the multi-series yScale, which stays undefined.
C8_RenderAssignsOnlyUndefinedScales ==
    [][ \A c \in Charts :
          (calls' = calls + 1 /\ last'.op = "render" /\ last'.chart = c) =>
              /\ \A f \in Accessors(c) \ ScaleAccessors(c) : cfg'[c][f] = cfg[c][f]
              /\ \A f \in ScaleAccessors(c) :
                    IF cfg[c][f] # Undefined
                    THEN cfg'[c][f] = cfg[c][f]
                    ELSE IF c \in MultiCharts /\ f = "yScale"
                         THEN cfg'[c][f] = Undefined
                         ELSE /\ cfg'[c][f] # Undefined
                              /\ cfg'[c][f].born = calls' ]_vars

\* C8 witness: width and xScale were set, then the chart was rendered: the
\* zScale was assigned by this render, the rest is as the caller left it.
C8_Witness ==
    /\ last.op = "render"
    /\ last.chart = "m1"
    /\ cfg["m1"].width = 300
    /\ cfg["m1"].xScale = UserX
    /\ cfg["m1"].zScale.born = calls
    /\ cfg["m1"].yScale = Undefined

\* C9: in barChartMultiSeries the yScale variable only ever holds undefined
\* or a scale the caller set (init never assigns it), and the y-scale handed
\* to axisThreePlane and barsMultiSeries by a render is that variable's
\* value: undefined unless the caller set it.
C9_MultiSeriesYScaleNeverDerived ==
    \A c \in MultiCharts :
        /\ cfg[c].yScale \in {Undefined} \cup UserScales
        /\ (last.op = "render" /\ last.chart = c) =>
              /\ dom.scene.calls.axis.yScale = cfg[c].yScale
              /\ dom.scene.calls.chart.call.yScale = cfg[c].yScale

\* C9 witness: the second render of a multi-series chart whose yScale was
\* never set still hands undefined to both sub-components.
C9_Witness ==
    /\ last.op = "render"
    /\ last.chart = "m1"
    /\ cfg["m1"].yScale = Undefined
    /\ Handed("m1", dom, "yScale") = {Undefined}
    /\ cfg["m1"].xScale.born \in 1..(calls - 1)

====
